---- MODULE Spec2Model ----
(***************************************************************************)
(* A model of the numb_rs matrix library: the Dense row-major matrix       *)
(* (dense.rs), its transpose views, the Symmetric matrix with triangular   *)
(* storage (symmetric.rs), the mat! literal macro (macros.rs) and the      *)
(* parity predicates and gcd/lcm functions (numerics.rs).                  *)
(*                                                                         *)
(* Element values are natural numbers.  Arithmetic on elements is exact;   *)
(* the actions are guarded so that every stored element stays within       *)
(* 0..MaxVal, which keeps the state space finite.  The gcd functions work  *)
(* on a fixed-width unsigned type of GcdBits bits.                         *)
(***************************************************************************)
EXTENDS Integers, Sequences, FiniteSets, TLC

\* ------------------------------------------------------------------ bounds
MaxDim == 2
MaxLen == 4
MaxVal == 2
MaxSymLen == 6
GcdBits == 4
IntBits == 6

\* --------------------------------------------------------- numerics.rs:45-49
ZERO == 0
ONE == 1

\* A faulty constant: TWO set to one.
TWO_set_to_one == ONE

TWO == 2

Val == 0..MaxVal
Dims == 0..MaxDim
Idx == 0..MaxDim

\* The value of a slot made visible by Vec::set_len before it is written.
Uninit == 0 - 1

\* What a call gives back: Ok(value), Err(MatrixError::Incompatibility), or a
\* panic (which unwinds out of the call).
Unit == "unit"
Ok(v) == [ok |-> TRUE, err |-> "", val |-> v]
Incompatibility == [ok |-> FALSE, err |-> "Incompatibility"]
PanicRes == [ok |-> FALSE, err |-> "panic"]

VARIABLES
    dense,   \* the Dense matrix the program holds: [data, m, n]
    sym,     \* the Symmetric matrix the program holds: [data, n]
    last,    \* the last operation: its name, arguments, operand before it, result
    gcd_in,  \* the arguments of the outermost gcd call
    gcd_a,   \* first argument of the innermost gcd call
    gcd_b,   \* second argument of the innermost gcd call
    gcd_stack, \* the pending callers, innermost last: "double" or "pass"
    gcd_pc,  \* "call", "return" or "done"
    gcd_ret, \* the value being returned
    gcd_ovf  \* whether an arithmetic operation left the range of the type

vars == <<dense, sym, last, gcd_in, gcd_a, gcd_b, gcd_stack, gcd_pc, gcd_ret, gcd_ovf>>
gcd_vars == <<gcd_in, gcd_a, gcd_b, gcd_stack, gcd_pc, gcd_ret, gcd_ovf>>

\* ------------------------------------------------------------ sequences
Vecs(S, k) == UNION {[1..l -> S] : l \in 0..k}

RECURSIVE SumTo(_, _)
SumTo(f, k) == IF k = 0 THEN 0 ELSE f[k] + SumTo(f, k - 1)

\* ================================================================ Dense
MkDense(data, m, n) == [data |-> data, m |-> m, n |-> n]

\* dense.rs:79-87
Dense_default == MkDense(<<>>, 1, 0)

\* dense.rs:157-159
Dense_new == Dense_default

\* dense.rs:162-167 (the capacity is not observable in data, m or n)
with_capacity(capacity) == [Dense_default EXCEPT !.data = <<>>]

\* dense.rs:170-178
col_from_vec(v) == MkDense(v, Len(v), 1)

\* dense.rs:240-245
from_vec(data) == MkDense(data, 1, Len(data))

\* dense.rs:247-256
from_slice(slice) == MkDense(slice, 1, Len(slice))

\* dense.rs:262-272
into_col(v) == col_from_vec(v)

\* dense.rs:181-183
swap_mn(D) == [D EXCEPT !.m = D.n, !.n = D.m]

\* dense.rs:187-206: pushes size*size values, row by row
eye(size) ==
    MkDense([p \in 1..(size * size) |->
                IF (p - 1) \div size = (p - 1) % size THEN 1 ELSE 0],
            size, size)

\* dense.rs:93, 109: the flat offset of element [i, j]
offset(D, i, j) == j + i * D.n

\* the bounds check of the Vec access in dense.rs:93, 109
oob(D, off) == off >= Len(D.data)

\* dense.rs:89-95
index(D, i, j) == D.data[offset(D, i, j) + 1]

\* A faulty write: the column is left out of the offset, so the value lands
\* at the start of row i.
index_mut_row_start(D, i, j, v) == [D EXCEPT !.data[i * D.n + 1] = v]

\* dense.rs:106-111 followed by the assignment through the reference
index_mut(D, i, j, v) == [D EXCEPT !.data[offset(D, i, j) + 1] = v]

\* dense.rs:97-104: the row slice data[a .. a + n]
row_oob(D, i) == D.n * i + D.n > Len(D.data)
index_row(D, i) == SubSeq(D.data, D.n * i + 1, D.n * i + D.n)

\* dense.rs:59-77
Dense_len(D) == Len(D.data)
Dense_size(D) == <<D.m, D.n>>
Dense_is_empty(D) == D.data = <<>>
Dense_into_vec(D) == D.data

\* The outcome of a loop that may panic part-way: the matrix as left, and
\* whether it panicked.
Done(D) == [dense |-> D, panic |-> FALSE]
Panicked(D) == [dense |-> D, panic |-> TRUE]

\* A faulty swap: the first slot is overwritten before it is saved, so both
\* slots end up holding the second value.
swap_overwrite(D, a, b) ==
    LET pa == offset(D, a[1], a[2]) + 1
        pb == offset(D, b[1], b[2]) + 1
    IN  [D EXCEPT !.data = [D.data EXCEPT ![pa] = D.data[pb]]]

\* dense.rs:211-217: exchange the contents of the two addressed slots
swap(D, a, b) ==
    LET pa == offset(D, a[1], a[2]) + 1
        pb == offset(D, b[1], b[2]) + 1
    IN  [D EXCEPT !.data = [D.data EXCEPT ![pa] = D.data[pb], ![pb] = D.data[pa]]]

\* dense.rs:276-280
RECURSIVE scale_row_from(_, _, _, _)
scale_row_from(D, i, scale, j) ==
    IF j >= D.n THEN Done(D)
    ELSE IF oob(D, offset(D, i, j)) THEN Panicked(D)
    ELSE scale_row_from(index_mut(D, i, j, index(D, i, j) * scale), i, scale, j + 1)

scale_row(D, i, scale) == scale_row_from(D, i, scale, 0)

\* A faulty row addition: the scaling factor is left out.
RECURSIVE add_rows_unscaled(_, _, _, _, _)
add_rows_unscaled(D, base, row_to_add, scale, j) ==
    IF j >= D.n THEN Done(D)
    ELSE IF oob(D, offset(D, row_to_add, j)) THEN Panicked(D)
    ELSE LET x == index(D, row_to_add, j)
         IN  IF oob(D, offset(D, base, j)) THEN Panicked(D)
             ELSE add_rows_unscaled(index_mut(D, base, j, index(D, base, j) + x),
                                    base, row_to_add, scale, j + 1)

\* dense.rs:283-288
RECURSIVE add_rows_from(_, _, _, _, _)
add_rows_from(D, base, row_to_add, scale, j) ==
    IF j >= D.n THEN Done(D)
    ELSE IF oob(D, offset(D, row_to_add, j)) THEN Panicked(D)
    ELSE LET x == index(D, row_to_add, j) * scale
         IN  IF oob(D, offset(D, base, j)) THEN Panicked(D)
             ELSE add_rows_from(index_mut(D, base, j, index(D, base, j) + x),
                                base, row_to_add, scale, j + 1)

add_rows(D, base, row_to_add, scale) == add_rows_from(D, base, row_to_add, scale, 0)

\* dense.rs:291-296
RECURSIVE swap_rows_from(_, _, _, _)
swap_rows_from(D, a, b, j) ==
    IF j >= D.n THEN Done(D)
    ELSE IF oob(D, offset(D, a, j)) \/ oob(D, offset(D, b, j)) THEN Panicked(D)
    ELSE swap_rows_from(swap(D, <<a, j>>, <<b, j>>), a, b, j + 1)

swap_rows(D, a, b) ==
    IF ~(a < D.m /\ b < D.m) THEN Panicked(D)
    ELSE swap_rows_from(D, a, b, 0)

\* dense.rs:359-367
mul_scalar(D, scalar) == [D EXCEPT !.data = [p \in 1..Len(D.data) |-> D.data[p] * scalar]]

\* dense.rs:369-373
mul_assign(D, scalar) == [D EXCEPT !.data = [p \in 1..Len(D.data) |-> D.data[p] * scalar]]

\* A faulty join: each row of other is pushed before the row of self.
RECURSIVE concatenate_rows_other_first(_, _, _)
concatenate_rows_other_first(self, other, i) ==
    IF i >= self.m THEN <<>>
    ELSE [j \in 1..other.n |-> index(other, i, j - 1)]
         \o [j \in 1..self.n |-> index(self, i, j - 1)]
         \o concatenate_rows_other_first(self, other, i + 1)

\* dense.rs:314-321: the rows of the joined matrix from row i on, each row of
\* self followed by the same row of other
RECURSIVE concatenate_rows(_, _, _)
concatenate_rows(self, other, i) ==
    IF i >= self.m THEN <<>>
    ELSE [j \in 1..self.n |-> index(self, i, j - 1)]
         \o [j \in 1..other.n |-> index(other, i, j - 1)]
         \o concatenate_rows(self, other, i + 1)

\* an element read of the loops in dense.rs:314-321 is out of the Vec's range
concatenate_oob(self, other) ==
    \E i \in 0..(self.m - 1) :
        \/ \E j \in 0..(self.n - 1) : oob(self, offset(self, i, j))
        \/ \E j \in 0..(other.n - 1) : oob(other, offset(other, i, j))

\* A faulty join: the column count of the result is left at self.n.
concatenate_keeps_n(self, other) ==
    IF self.m = other.m
    THEN IF concatenate_oob(self, other) THEN PanicRes
         ELSE Ok([with_capacity(Len(self.data) + Len(other.data))
                    EXCEPT !.n = self.n,
                           !.m = self.m,
                           !.data = concatenate_rows(self, other, 0)])
    ELSE Incompatibility

\* dense.rs:300-327
concatenate(self, other) ==
    IF self.m = other.m
    THEN IF concatenate_oob(self, other) THEN PanicRes
         ELSE Ok([with_capacity(Len(self.data) + Len(other.data))
                    EXCEPT !.n = self.n + other.n,
                           !.m = self.m,
                           !.data = concatenate_rows(self, other, 0)])
    ELSE Incompatibility

\* dense.rs:227-232
RECURSIVE concatenate_vec_rows(_, _, _)
concatenate_vec_rows(self, other, i) ==
    IF i >= self.m THEN <<>>
    ELSE [j \in 1..self.n |-> index(self, i, j - 1)]
         \o <<other[i + 1]>>
         \o concatenate_vec_rows(self, other, i + 1)

\* dense.rs:219-237
concatenate_vec(self, other) ==
    IF self.m = Len(other)
    THEN IF concatenate_oob(self, MkDense(<<>>, self.m, 0)) THEN PanicRes
         ELSE Ok([with_capacity(Len(self.data) + Len(other))
                    EXCEPT !.n = self.n + 1,
                           !.m = self.m,
                           !.data = concatenate_vec_rows(self, other, 0)])
    ELSE Incompatibility

\* ------------------------------------------------------ transpose views
\* dense.rs:538-544
t(D) == [inner |-> D, m |-> D.n, n |-> D.m]

\* dense.rs:550-555
t_mut(D) == [inner |-> D, m |-> D.n, n |-> D.m]

\* dense.rs:561-563 and 569-571: whether the read panics, and what it reads
view_oob(V, i, j) == oob(V.inner, offset(V.inner, j, i))
view_index(V, i, j) == index(V.inner, j, i)

\* A faulty write through the view: the indices are not exchanged.
view_index_mut_unswapped(V, i, j, v) == index_mut(V.inner, i, j, v)

\* dense.rs:575-577 followed by the assignment: the referenced matrix afterwards
view_index_mut(V, i, j, v) == index_mut(V.inner, j, i, v)

\* dense.rs:587-589
DenseTranspose_size(V) == Dense_size(V.inner)

\* dense.rs:606-608
DenseTransposeMut_size(V) == Dense_size(V.inner)

\* dense.rs:583-585, 602-604
view_len(V) == Dense_len(V.inner)

\* Iterator::skip(i) followed by step_by(step), collected (dense.rs:594, 613)
RECURSIVE skip_step_by(_, _, _)
skip_step_by(data, i, step) ==
    IF i >= Len(data) THEN <<>>
    ELSE <<data[i + 1]>> \o skip_step_by(data, i + step, step)

\* dense.rs:592-595: flat_map over i in i .. self.m
RECURSIVE view_flat_map(_, _)
view_flat_map(V, i) ==
    IF i >= V.m THEN <<>>
    ELSE skip_step_by(V.inner.data, i, V.m) \o view_flat_map(V, i + 1)

\* A faulty materialisation: the storage order of the referenced matrix.
into_vec_storage_order(V) == V.inner.data

\* dense.rs:591-596
DenseTranspose_into_vec(V) == view_flat_map(V, 0)

\* dense.rs:610-615
DenseTransposeMut_into_vec(V) == view_flat_map(V, 0)

\* ============================================================ Symmetric
MkSym(data, n) == [data |-> data, n |-> n]

\* A faulty mapping: the second branch uses idx[1] where it should use idx[0].
sym_offset_typo(i, j) ==
    IF i > j THEN (i * (i + 1)) \div 2 + j
    ELSE (j * (j + 1)) \div 2 + j

\* A faulty mapping: the comparison is the wrong way round, so the smaller
\* index selects the row of the triangle.
sym_offset_flipped(i, j) ==
    IF i < j THEN (i * (i + 1)) \div 2 + j
    ELSE (j * (j + 1)) \div 2 + i

\* symmetric.rs:42-46 and 54-58
sym_offset(i, j) ==
    IF i > j THEN (i * (i + 1)) \div 2 + j
    ELSE (j * (j + 1)) \div 2 + i

sym_oob(S, i, j) == sym_offset(i, j) >= Len(S.data)

\* symmetric.rs:38-50
sym_index(S, i, j) == S.data[sym_offset(i, j) + 1]

\* symmetric.rs:52-62 followed by the assignment
sym_index_mut(S, i, j, v) == [S EXCEPT !.data[sym_offset(i, j) + 1] = v]

\* symmetric.rs:18-36
Symmetric_len(S) == Len(S.data)
Symmetric_size(S) == <<S.n, S.n>>
Symmetric_is_empty(S) == S.data = <<>>
Symmetric_into_vec(S) == S.data

\* symmetric.rs:100-108
sym_mul_scalar(S, scalar) == [S EXCEPT !.data = [p \in 1..Len(S.data) |-> S.data[p] * scalar]]

\* A faulty accumulation: each product is assigned instead of added.
RECURSIVE sym_mul_acc_assign(_, _, _, _, _, _)
sym_mul_acc_assign(out, S, rhs, i, j, k) ==
    IF k >= S.n THEN out
    ELSE sym_mul_acc_assign(index_mut(out, i, j, sym_index(S, i, k) * index(rhs, k, j)),
                            S, rhs, i, j, k + 1)

\* symmetric.rs:128-130: the accumulation over k for cell [i, j]
RECURSIVE sym_mul_acc(_, _, _, _, _, _)
sym_mul_acc(out, S, rhs, i, j, k) ==
    IF k >= S.n THEN out
    ELSE sym_mul_acc(index_mut(out, i, j,
                               index(out, i, j) + sym_index(S, i, k) * index(rhs, k, j)),
                     S, rhs, i, j, k + 1)

\* symmetric.rs:125-132: the cells in the order the two outer loops visit them
RECURSIVE sym_mul_cells(_, _, _, _)
sym_mul_cells(out, S, rhs, c) ==
    IF c >= out.m * out.n THEN out
    ELSE LET i == c \div out.n
             j == c % out.n
         IN  sym_mul_cells(sym_mul_acc(index_mut(out, i, j, ZERO), S, rhs, i, j, 0),
                           S, rhs, c + 1)

\* an element read of the loops in symmetric.rs:125-132 is out of range
sym_mul_oob(S, rhs) ==
    \E i \in 0..(S.n - 1), j \in 0..(rhs.n - 1), k \in 0..(S.n - 1) :
        sym_oob(S, i, k) \/ oob(rhs, offset(rhs, k, j))

\* symmetric.rs:110-136
sym_mul_dense(S, rhs) ==
    IF S.n # rhs.m THEN Incompatibility
    ELSE IF sym_mul_oob(S, rhs) THEN PanicRes
    ELSE LET out == [with_capacity(S.n * rhs.n)
                       EXCEPT !.m = S.n,
                              !.n = rhs.n,
                              !.data = [p \in 1..(S.n * rhs.n) |-> Uninit]]
         IN  Ok(sym_mul_cells(out, S, rhs, 0))

\* ------------------------------------------------ Dense * Dense (section 4.3)
\* A faulty accumulation: each product is assigned instead of added.
RECURSIVE dense_mul_acc_assign(_, _, _, _, _, _)
dense_mul_acc_assign(out, self, other, i, j, k) ==
    IF k >= self.n THEN out
    ELSE dense_mul_acc_assign(index_mut(out, i, j, index(self, i, k) * index(other, k, j)),
                              self, other, i, j, k + 1)

\* section 4.3: the accumulation over k for cell [i, j], seeded at ZERO
RECURSIVE dense_mul_acc(_, _, _, _, _, _)
dense_mul_acc(out, self, other, i, j, k) ==
    IF k >= self.n THEN out
    ELSE dense_mul_acc(index_mut(out, i, j,
                                 index(out, i, j) + index(self, i, k) * index(other, k, j)),
                       self, other, i, j, k + 1)

RECURSIVE dense_mul_cells(_, _, _, _)
dense_mul_cells(out, self, other, c) ==
    IF c >= out.m * out.n THEN out
    ELSE LET i == c \div out.n
             j == c % out.n
         IN  dense_mul_cells(dense_mul_acc(index_mut(out, i, j, ZERO), self, other, i, j, 0),
                             self, other, c + 1)

dense_mul(self, other) ==
    IF self.n # other.m THEN Incompatibility
    ELSE LET out == MkDense([p \in 1..(self.m * other.n) |-> Uninit], self.m, other.n)
         IN  Ok(dense_mul_cells(out, self, other, 0))

\* ============================================================== inputs
\* The matrices a caller can hand in: every Dense that satisfies the storage
\* invariant, within the bounds of the model.
Shapes == {mn \in Dims \X Dims : mn[1] * mn[2] <= MaxLen}

OtherIn ==
    UNION {{MkDense(v, mn[1], mn[2]) : v \in [1..(mn[1] * mn[2]) -> Val]} : mn \in Shapes}

\* The symmetric matrices a caller can hand in as an operand of a product:
\* triangular data of length n*(n+1)/2.
SymArg ==
    UNION {{MkSym(v, n) : v \in [1..((n * (n + 1)) \div 2) -> Val]} :
              n \in {x \in Dims : (x * (x + 1)) \div 2 <= MaxLen}}

\* The symmetric matrices the program can build, up to MaxSymLen stored values.
SymDims == {x \in 0..MaxSymLen : (x * (x + 1)) \div 2 <= MaxSymLen}
SymIn ==
    UNION {{MkSym(v, n) : v \in [1..((n * (n + 1)) \div 2) -> Val]} : n \in SymDims}

\* The indices tried on a symmetric matrix: every index in range of the largest
\* side, and one past it.
SymIdx == SymDims

VecIn == Vecs(Val, MaxDim)

\* A matrix the model keeps: within the bounds on dimensions, length and values.
InModel(D) ==
    /\ D.m \in Dims
    /\ D.n \in Dims
    /\ Len(D.data) <= MaxLen
    /\ \A p \in 1..Len(D.data) : D.data[p] \in Val

SymInModel(S) ==
    /\ S.n \in SymDims
    /\ Len(S.data) <= MaxSymLen
    /\ \A p \in 1..Len(S.data) : S.data[p] \in Val

\* ============================================================ actions
Record(op, args, pre, ret) == [op |-> op, args |-> args, pre |-> pre, ret |-> ret]

\* What `last.ret` holds after a call that only reads: the value, or the panic.
Returned(panics, value) == IF panics THEN PanicRes ELSE Ok(value)

\* What `last.ret` holds after a call that changes the matrix in place.
Finished(out) == IF out.panic THEN PanicRes ELSE Ok(Unit)

\* The matrix the program holds after a call returning Result<Dense, _>: it
\* goes on with the matrix returned, and keeps its own when the call fails.
Kept(D, res) == IF res.ok THEN res.val ELSE D

\* No call has returned that the caller still has to look at.
NoCall == Record("none", <<>>, Dense_default, Ok(Unit))
Ready == last = NoCall

New ==
    /\ Ready
    /\ dense' = Dense_new
    /\ last' = Record("new", <<>>, dense, Ok(Unit))
    /\ UNCHANGED <<sym, gcd_vars>>

WithCapacity ==
    /\ Ready
    /\ \E c \in 0..MaxLen :
        /\ dense' = with_capacity(c)
        /\ last' = Record("with_capacity", <<c>>, dense, Ok(Unit))
        /\ UNCHANGED <<sym, gcd_vars>>

FromVec ==
    /\ Ready
    /\ \E v \in VecIn :
        /\ dense' = from_vec(v)
        /\ last' = Record("from_vec", <<v>>, dense, Ok(Unit))
        /\ UNCHANGED <<sym, gcd_vars>>

FromSlice ==
    /\ Ready
    /\ \E v \in VecIn :
        /\ dense' = from_slice(v)
        /\ last' = Record("from_slice", <<v>>, dense, Ok(Unit))
        /\ UNCHANGED <<sym, gcd_vars>>

ColFromVec ==
    /\ Ready
    /\ \E v \in VecIn :
        /\ dense' = col_from_vec(v)
        /\ last' = Record("col_from_vec", <<v>>, dense, Ok(Unit))
        /\ UNCHANGED <<sym, gcd_vars>>

IntoCol ==
    /\ Ready
    /\ \E v \in VecIn :
        /\ dense' = into_col(v)
        /\ last' = Record("into_col", <<v>>, dense, Ok(Unit))
        /\ UNCHANGED <<sym, gcd_vars>>

Eye ==
    /\ Ready
    /\ \E size \in Dims :
        /\ size * size <= MaxLen
        /\ dense' = eye(size)
        /\ last' = Record("eye", <<size>>, dense, Ok(Unit))
        /\ UNCHANGED <<sym, gcd_vars>>

SwapMn ==
    /\ Ready
    /\ dense' = swap_mn(dense)
    /\ last' = Record("swap_mn", <<>>, dense, Ok(Unit))
    /\ UNCHANGED <<sym, gcd_vars>>

Index ==
    /\ Ready
    /\ \E i \in Idx, j \in Idx :
        /\ last' = Record("index", <<i, j>>, dense,
                          Returned(oob(dense, offset(dense, i, j)), index(dense, i, j)))
        /\ UNCHANGED <<dense, sym, gcd_vars>>

IndexRow ==
    /\ Ready
    /\ \E i \in Idx :
        /\ last' = Record("index_row", <<i>>, dense,
                          Returned(row_oob(dense, i), index_row(dense, i)))
        /\ UNCHANGED <<dense, sym, gcd_vars>>

IndexMut ==
    /\ Ready
    /\ \E i \in Idx, j \in Idx, v \in Val :
        LET out == IF oob(dense, offset(dense, i, j)) THEN Panicked(dense)
                   ELSE Done(index_mut(dense, i, j, v))
        IN  /\ dense' = out.dense
            /\ last' = Record("index_mut", <<i, j, v>>, dense, Finished(out))
            /\ UNCHANGED <<sym, gcd_vars>>

DenseLen ==
    /\ Ready
    /\ last' = Record("len", <<>>, dense, Ok(Dense_len(dense)))
    /\ UNCHANGED <<dense, sym, gcd_vars>>

DenseSize ==
    /\ Ready
    /\ last' = Record("size", <<>>, dense, Ok(Dense_size(dense)))
    /\ UNCHANGED <<dense, sym, gcd_vars>>

DenseIsEmpty ==
    /\ Ready
    /\ last' = Record("is_empty", <<>>, dense, Ok(Dense_is_empty(dense)))
    /\ UNCHANGED <<dense, sym, gcd_vars>>

DenseIntoVec ==
    /\ Ready
    /\ last' = Record("into_vec", <<>>, dense, Ok(Dense_into_vec(dense)))
    /\ UNCHANGED <<dense, sym, gcd_vars>>

ScaleRow ==
    /\ Ready
    /\ \E i \in Idx, scale \in Val :
        LET out == scale_row(dense, i, scale)
        IN  /\ InModel(out.dense)
            /\ dense' = out.dense
            /\ last' = Record("scale_row", <<i, scale>>, dense, Finished(out))
            /\ UNCHANGED <<sym, gcd_vars>>

AddRows ==
    /\ Ready
    /\ \E base \in Idx, row_to_add \in Idx, scale \in Val :
        LET out == add_rows(dense, base, row_to_add, scale)
        IN  /\ InModel(out.dense)
            /\ dense' = out.dense
            /\ last' = Record("add_rows", <<base, row_to_add, scale>>, dense, Finished(out))
            /\ UNCHANGED <<sym, gcd_vars>>

SwapRows ==
    /\ Ready
    /\ \E a \in Idx, b \in Idx :
        LET out == swap_rows(dense, a, b)
        IN  /\ dense' = out.dense
            /\ last' = Record("swap_rows", <<a, b>>, dense, Finished(out))
            /\ UNCHANGED <<sym, gcd_vars>>

MulScalar ==
    /\ Ready
    /\ \E scalar \in Val :
        LET out == mul_scalar(dense, scalar)
        IN  /\ InModel(out)
            /\ dense' = out
            /\ last' = Record("mul_scalar", <<scalar>>, dense, Ok(Unit))
            /\ UNCHANGED <<sym, gcd_vars>>

MulAssign ==
    /\ Ready
    /\ \E scalar \in Val :
        LET out == mul_assign(dense, scalar)
        IN  /\ InModel(out)
            /\ dense' = out
            /\ last' = Record("mul_assign", <<scalar>>, dense, Ok(Unit))
            /\ UNCHANGED <<sym, gcd_vars>>

Concatenate ==
    /\ Ready
    /\ \E other \in OtherIn :
        LET res == concatenate(dense, other)
        IN  /\ res.ok => InModel(res.val)
            /\ dense' = Kept(dense, res)
            /\ last' = Record("concatenate", <<other>>, dense, res)
            /\ UNCHANGED <<sym, gcd_vars>>

ConcatenateVec ==
    /\ Ready
    /\ \E v \in VecIn :
        LET res == concatenate_vec(dense, v)
        IN  /\ res.ok => InModel(res.val)
            /\ dense' = Kept(dense, res)
            /\ last' = Record("concatenate_vec", <<v>>, dense, res)
            /\ UNCHANGED <<sym, gcd_vars>>

DenseMul ==
    /\ Ready
    /\ \E other \in OtherIn :
        LET res == dense_mul(dense, other)
        IN  /\ res.ok => InModel(res.val)
            /\ dense' = Kept(dense, res)
            /\ last' = Record("dense_mul", <<other>>, dense, res)
            /\ UNCHANGED <<sym, gcd_vars>>

SymMulDense ==
    /\ Ready
    /\ \E S \in SymArg :
        LET res == sym_mul_dense(S, dense)
        IN  /\ res.ok => InModel(res.val)
            /\ dense' = Kept(dense, res)
            /\ last' = Record("sym_mul_dense", <<S>>, dense, res)
            /\ UNCHANGED <<sym, gcd_vars>>

TIndex ==
    /\ Ready
    /\ \E i \in Idx, j \in Idx :
        /\ last' = Record("t_index", <<i, j>>, dense,
                          Returned(view_oob(t(dense), i, j), view_index(t(dense), i, j)))
        /\ UNCHANGED <<dense, sym, gcd_vars>>

TMutIndex ==
    /\ Ready
    /\ \E i \in Idx, j \in Idx :
        /\ last' = Record("t_mut_index", <<i, j>>, dense,
                          Returned(view_oob(t_mut(dense), i, j),
                                   view_index(t_mut(dense), i, j)))
        /\ UNCHANGED <<dense, sym, gcd_vars>>

TMutIndexMut ==
    /\ Ready
    /\ \E i \in Idx, j \in Idx, v \in Val :
        LET out == IF view_oob(t_mut(dense), i, j) THEN Panicked(dense)
                   ELSE Done(view_index_mut(t_mut(dense), i, j, v))
        IN  /\ dense' = out.dense
            /\ last' = Record("t_mut_index_mut", <<i, j, v>>, dense, Finished(out))
            /\ UNCHANGED <<sym, gcd_vars>>

TSize ==
    /\ Ready
    /\ last' = Record("t_size", <<>>, dense, Ok(DenseTranspose_size(t(dense))))
    /\ UNCHANGED <<dense, sym, gcd_vars>>

TMutSize ==
    /\ Ready
    /\ last' = Record("t_mut_size", <<>>, dense, Ok(DenseTransposeMut_size(t_mut(dense))))
    /\ UNCHANGED <<dense, sym, gcd_vars>>

TIntoVec ==
    /\ Ready
    /\ last' = Record("t_into_vec", <<>>, dense, Ok(DenseTranspose_into_vec(t(dense))))
    /\ UNCHANGED <<dense, sym, gcd_vars>>

TMutIntoVec ==
    /\ Ready
    /\ last' = Record("t_mut_into_vec", <<>>, dense,
                      Ok(DenseTransposeMut_into_vec(t_mut(dense))))
    /\ UNCHANGED <<dense, sym, gcd_vars>>

\* The caller has looked at what the call gave back and goes on.
Continue ==
    /\ ~Ready
    /\ last' = NoCall
    /\ UNCHANGED <<dense, sym, gcd_vars>>

\* ---------------------------------------------------------- macros.rs
\* macros.rs:34-36: mat![]
mat_empty == Dense_new

\* macros.rs:39-50: v, _n and m after the first k rows of the literal; _n is
\* set to zero at the start of each row and counts that row's items.
RECURSIVE mat_rows(_, _)
mat_rows(rows, k) ==
    IF k = 0 THEN [v |-> <<>>, m |-> 0]
    ELSE LET st == mat_rows(rows, k - 1)
         IN  [v |-> st.v \o rows[k], n |-> Len(rows[k]), m |-> st.m + 1]

\* macros.rs:38-56: mat![a, b; c, d]
mat(rows) ==
    LET st == mat_rows(rows, Len(rows))
    IN  MkDense(st.v, st.m, st.n)

\* macros.rs:58-68: mat![val => m, n]
mat_fill(val, m, n) == MkDense([p \in 1..(m * n) |-> val], m, n)

\* The literals tried: one or more rows of one or more items each, given by
\* the item counts of the rows and the items in reading order.
RowLens ==
    {ls \in UNION {[1..k -> 1..MaxDim] : k \in 1..MaxDim} : SumTo(ls, Len(ls)) <= MaxLen}

Literal(ls, items) ==
    [r \in 1..Len(ls) |-> SubSeq(items, SumTo(ls, r - 1) + 1, SumTo(ls, r))]

MatEmpty ==
    /\ Ready
    /\ dense' = mat_empty
    /\ last' = Record("mat_empty", <<>>, dense, Ok(Unit))
    /\ UNCHANGED <<sym, gcd_vars>>

MatRows ==
    /\ Ready
    /\ \E ls \in RowLens :
        \E items \in [1..SumTo(ls, Len(ls)) -> Val] :
            LET rows == Literal(ls, items)
            IN  /\ dense' = mat(rows)
                /\ last' = Record("mat", <<rows>>, dense, Ok(Unit))
                /\ UNCHANGED <<sym, gcd_vars>>

MatFill ==
    /\ Ready
    /\ \E val \in Val, mn \in Shapes :
        /\ dense' = mat_fill(val, mn[1], mn[2])
        /\ last' = Record("mat_fill", <<val, mn[1], mn[2]>>, dense, Ok(Unit))
        /\ UNCHANGED <<sym, gcd_vars>>

\* ------------------------------------------------- Symmetric actions
SymIndex ==
    /\ Ready
    /\ \E i \in SymIdx, j \in SymIdx :
        /\ last' = Record("sym_index", <<i, j>>, sym,
                          Returned(sym_oob(sym, i, j), sym_index(sym, i, j)))
        /\ UNCHANGED <<dense, sym, gcd_vars>>

SymIndexMut ==
    /\ Ready
    /\ \E i \in SymIdx, j \in SymIdx, v \in Val :
        LET panics == sym_oob(sym, i, j)
        IN  /\ sym' = IF panics THEN sym ELSE sym_index_mut(sym, i, j, v)
            /\ last' = Record("sym_index_mut", <<i, j, v>>, sym, Returned(panics, Unit))
            /\ UNCHANGED <<dense, gcd_vars>>

SymLen ==
    /\ Ready
    /\ last' = Record("sym_len", <<>>, sym, Ok(Symmetric_len(sym)))
    /\ UNCHANGED <<dense, sym, gcd_vars>>

SymSize ==
    /\ Ready
    /\ last' = Record("sym_size", <<>>, sym, Ok(Symmetric_size(sym)))
    /\ UNCHANGED <<dense, sym, gcd_vars>>

SymIsEmpty ==
    /\ Ready
    /\ last' = Record("sym_is_empty", <<>>, sym, Ok(Symmetric_is_empty(sym)))
    /\ UNCHANGED <<dense, sym, gcd_vars>>

SymIntoVec ==
    /\ Ready
    /\ last' = Record("sym_into_vec", <<>>, sym, Ok(Symmetric_into_vec(sym)))
    /\ UNCHANGED <<dense, sym, gcd_vars>>

SymMulScalar ==
    /\ Ready
    /\ \E scalar \in Val :
        LET out == sym_mul_scalar(sym, scalar)
        IN  /\ SymInModel(out)
            /\ sym' = out
            /\ last' = Record("sym_mul_scalar", <<scalar>>, sym, Ok(Unit))
            /\ UNCHANGED <<dense, gcd_vars>>

\* ================================================================= gcd
\* The unsigned type T of gcd: GcdBits bits wide.
Modulus == 2 ^ GcdBits
Unsigned == 0..(Modulus - 1)

\* The remainder operator % of the integer types: the division truncates
\* towards zero, so the remainder has the sign of the dividend (y > 0 here).
Rem(x, y) == IF x >= 0 THEN x % y ELSE 0 - ((0 - x) % y)

\* numerics.rs:35-37
is_even(x) == Rem(x, TWO) = ZERO

\* A faulty parity test: the remainder is compared with ZERO.
is_odd_zero(x) == Rem(x, TWO) = ZERO

\* numerics.rs:40-42
is_odd(x) == Rem(x, TWO) = ONE

\* The values of the integer types that implement Numeric (numerics.rs:45-49),
\* IntBits wide: the signed and the unsigned ones.
SignedInt == (0 - 2 ^ (IntBits - 1))..(2 ^ (IntBits - 1) - 1)
UnsignedInt == 0..(2 ^ IntBits - 1)
IntIn == SignedInt \cup UnsignedInt

\* numerics.rs:35-37, called on any value of an integer type
IsEven ==
    /\ Ready
    /\ \E x \in IntIn :
        last' = Record("is_even", <<x>>, Dense_default, Ok(is_even(x)))
    /\ UNCHANGED <<dense, sym, gcd_vars>>

\* numerics.rs:40-42, called on any value of an integer type
IsOdd ==
    /\ Ready
    /\ \E x \in IntIn :
        last' = Record("is_odd", <<x>>, Dense_default, Ok(is_odd(x)))
    /\ UNCHANGED <<dense, sym, gcd_vars>>

\* The value an arithmetic result has in T, and whether it left T's range.
Wrap(x) == x % Modulus
Overflows(x) == x < 0 \/ x >= Modulus

\* numerics.rs:114-132: gcd as a function of its arguments
RECURSIVE gcd(_, _)
gcd(a, b) ==
    IF a = b \/ b = ZERO THEN a
    ELSE IF a = ZERO THEN b
    ELSE IF is_even(a)
         THEN IF is_odd(b) THEN gcd(a \div TWO, b)
              ELSE Wrap(TWO * gcd(a \div TWO, b \div TWO))
    ELSE IF is_even(b) THEN gcd(a, b \div TWO)
    ELSE IF a > b THEN gcd(Wrap(a - b) \div TWO, b)
    ELSE gcd(Wrap(b - a) \div TWO, a)

Frame(kind, a, b) == [kind |-> kind, a |-> a, b |-> b]

\* numerics.rs:115-131: one call of gcd(a, b) up to its return or its recursive call
GcdCall ==
    /\ gcd_pc = "call"
    /\ LET a == gcd_a
           b == gcd_b
           Return(v) ==
               /\ gcd_ret' = v
               /\ gcd_pc' = "return"
               /\ UNCHANGED <<gcd_a, gcd_b, gcd_stack, gcd_ovf>>
           Recurse(kind, raw_a, raw_b, raw_diff) ==
               /\ gcd_a' = raw_a
               /\ gcd_b' = raw_b
               /\ gcd_ovf' = (gcd_ovf \/ Overflows(raw_diff))
               /\ gcd_stack' = Append(gcd_stack, Frame(kind, a, b))
               /\ UNCHANGED <<gcd_pc, gcd_ret>>
       IN  IF a = b \/ b = ZERO THEN Return(a)
           ELSE IF a = ZERO THEN Return(b)
           ELSE IF is_even(a)
                THEN IF is_odd(b) THEN Recurse("pass", a \div TWO, b, 0)
                     ELSE Recurse("double", a \div TWO, b \div TWO, 0)
           ELSE IF is_even(b) THEN Recurse("pass", a, b \div TWO, 0)
           ELSE IF a > b THEN Recurse("pass", Wrap(a - b) \div TWO, b, a - b)
           ELSE Recurse("pass", Wrap(b - a) \div TWO, a, b - a)
    /\ UNCHANGED <<dense, sym, last, gcd_in>>

\* numerics.rs:121-130: a recursive call returns into its caller, which doubles
\* the value (line 123) or passes it on
GcdReturn ==
    /\ gcd_pc = "return"
    /\ gcd_stack # <<>>
    /\ LET top == gcd_stack[Len(gcd_stack)]
           raw == IF top.kind = "double" THEN TWO * gcd_ret ELSE gcd_ret
       IN  /\ gcd_ret' = Wrap(raw)
           /\ gcd_ovf' = (gcd_ovf \/ Overflows(raw))
    /\ gcd_stack' = SubSeq(gcd_stack, 1, Len(gcd_stack) - 1)
    /\ UNCHANGED <<dense, sym, last, gcd_in, gcd_a, gcd_b, gcd_pc>>

\* the outermost call returns to the caller of gcd
GcdDone ==
    /\ gcd_pc = "return"
    /\ gcd_stack = <<>>
    /\ gcd_pc' = "done"
    /\ UNCHANGED <<dense, sym, last, gcd_in, gcd_a, gcd_b, gcd_stack, gcd_ret, gcd_ovf>>

\* numerics.rs:138: (a * b) / gcd, with g the value gcd(a, b) returned.  The
\* product wraps in a build without overflow checks and panics in one with
\* them (checked); the division panics when the divisor is zero.
lcm_quotient(a, b, g, checked) ==
    IF checked /\ Overflows(a * b) THEN PanicRes
    ELSE IF g = ZERO THEN PanicRes
    ELSE Ok(Wrap(a * b) \div g)

\* numerics.rs:136-139: lcm(a, b), from the return of its call of gcd(a, b)
Lcm ==
    /\ gcd_pc = "done"
    /\ Ready
    /\ \E checked \in BOOLEAN :
        last' = Record("lcm", gcd_in, Dense_default,
                       lcm_quotient(gcd_in[1], gcd_in[2], gcd_ret, checked))
    /\ UNCHANGED <<dense, sym, gcd_vars>>

\* ======================================================= specifications
NoSym == MkSym(<<>>, 0)

NoGcd ==
    /\ gcd_in = <<0, 0>>
    /\ gcd_a = 0
    /\ gcd_b = 0
    /\ gcd_stack = <<>>
    /\ gcd_pc = "done"
    /\ gcd_ret = 0
    /\ gcd_ovf = FALSE

Init ==
    /\ dense = Dense_new
    /\ sym = NoSym
    /\ last = NoCall
    /\ NoGcd

Next ==
    \/ New
    \/ WithCapacity
    \/ FromVec
    \/ FromSlice
    \/ ColFromVec
    \/ IntoCol
    \/ Eye
    \/ SwapMn
    \/ Index
    \/ IndexRow
    \/ IndexMut
    \/ DenseLen
    \/ DenseSize
    \/ DenseIsEmpty
    \/ DenseIntoVec
    \/ ScaleRow
    \/ AddRows
    \/ SwapRows
    \/ MulScalar
    \/ MulAssign
    \/ Concatenate
    \/ ConcatenateVec
    \/ DenseMul
    \/ SymMulDense
    \/ TIndex
    \/ TMutIndex
    \/ TMutIndexMut
    \/ TSize
    \/ TMutSize
    \/ TIntoVec
    \/ TMutIntoVec
    \/ Continue

Spec == Init /\ [][Next]_vars

\* The Symmetric matrix: built from any triangular data, then read and written.
InitSym ==
    /\ dense = Dense_new
    /\ sym \in SymIn
    /\ last = NoCall
    /\ NoGcd

NextSym ==
    \/ SymIndex
    \/ SymIndexMut
    \/ SymLen
    \/ SymSize
    \/ SymIsEmpty
    \/ SymIntoVec
    \/ SymMulScalar
    \/ Continue

SpecSym == InitSym /\ [][NextSym]_vars

\* gcd called with any two values of the unsigned type.
InitGcd ==
    /\ dense = Dense_new
    /\ sym = NoSym
    /\ last = NoCall
    /\ gcd_in \in Unsigned \X Unsigned
    /\ gcd_a = gcd_in[1]
    /\ gcd_b = gcd_in[2]
    /\ gcd_stack = <<>>
    /\ gcd_pc = "call"
    /\ gcd_ret = 0
    /\ gcd_ovf = FALSE

NextGcd ==
    \/ GcdCall
    \/ GcdReturn
    \/ GcdDone
    \/ Lcm

SpecGcd == InitGcd /\ [][NextGcd]_vars

\* Matrices written as literals with the mat! macro.
InitMat ==
    /\ dense = Dense_new
    /\ sym = NoSym
    /\ last = NoCall
    /\ NoGcd

NextMat ==
    \/ MatEmpty
    \/ MatRows
    \/ MatFill
    \/ Continue

SpecMat == InitMat /\ [][NextMat]_vars

\* The parity predicates called on values of the integer types.
InitParity ==
    /\ dense = Dense_new
    /\ sym = NoSym
    /\ last = NoCall
    /\ NoGcd

NextParity ==
    \/ IsEven
    \/ IsOdd
    \/ Continue

SpecParity == InitParity /\ [][NextParity]_vars

\* A call of gcd runs on until it returns: each step of the recursion is taken
\* once it can be.
SpecGcdFair ==
    /\ InitGcd
    /\ [][NextGcd]_vars
    /\ WF_vars(GcdCall)
    /\ WF_vars(GcdReturn)
    /\ WF_vars(GcdDone)

\* ================================================================ claims
\* The element at logical position (r, c) of a row-major m x n matrix.
Elem(D, r, c) == D.data[r * D.n + c + 1]

\* Row r of a row-major matrix, as a sequence.
RowOf(D, r) == [c \in 1..D.n |-> D.data[r * D.n + c]]

Arg(k) == last.args[k]

\* C1: every Dense matrix the program holds, after any constructor and any
\* sequence of the operations on it, has as many stored values as m * n.
C1_StorageInvariant == Len(dense.data) = dense.m * dense.n

\* C1 witness: a 2 x 2 matrix was produced by joining two matrices.
C1_Witness ==
    /\ last.op = "concatenate"
    /\ last.ret.ok
    /\ dense.m = 2
    /\ dense.n = 2
    /\ Len(dense.data) = 4

\* C2: reading [i, j] through a transpose view (read-only or mutable) gives the
\* element [j, i] of the matrix, and writing v at [i, j] through the mutable
\* view makes [j, i] of the matrix v and changes nothing else.
C2_TransposeAccess ==
    /\ last.op \in {"t_index", "t_mut_index"} =>
         LET D == last.pre
         IN  (Arg(1) < D.n /\ Arg(2) < D.m) =>
                 /\ last.ret.ok
                 /\ last.ret.val = Elem(D, Arg(2), Arg(1))
                 /\ dense = D
    /\ last.op = "t_mut_index_mut" =>
         LET D == last.pre
         IN  (Arg(1) < D.n /\ Arg(2) < D.m) =>
                 /\ last.ret.ok
                 /\ Elem(dense, Arg(2), Arg(1)) = Arg(3)
                 /\ dense.m = D.m
                 /\ dense.n = D.n
                 /\ Len(dense.data) = Len(D.data)
                 /\ \A r \in 0..(D.m - 1), c \in 0..(D.n - 1) :
                        <<r, c>> # <<Arg(2), Arg(1)>> => Elem(dense, r, c) = Elem(D, r, c)

\* C2 witness: a write through the mutable view at [1, 0] of a 2 x 2 matrix
\* changed its element [0, 1].
C2_Witness ==
    /\ last.op = "t_mut_index_mut"
    /\ last.pre.m = 2
    /\ last.pre.n = 2
    /\ Arg(1) = 1
    /\ Arg(2) = 0
    /\ Arg(3) # last.pre.data[2]
    /\ dense.data[2] = Arg(3)

\* C3: size() of a transpose view of an m x n matrix is [n, m], the rows and
\* columns of the view.
C3_ViewSize ==
    last.op \in {"t_size", "t_mut_size"} =>
        last.ret.val = <<last.pre.n, last.pre.m>>

\* C4: into_vec of a transpose view of an m x n matrix is the row-major order
\* of the n x m transpose: m * n values, the one at i * m + j being [j, i] of
\* the matrix; the matrix is not modified.
C4_TransposeIntoVec ==
    last.op \in {"t_into_vec", "t_mut_into_vec"} =>
        LET D == last.pre
            v == last.ret.val
        IN  /\ last.ret.ok
            /\ Len(v) = D.m * D.n
            /\ \A i \in 0..(D.n - 1), j \in 0..(D.m - 1) :
                   v[i * D.m + j + 1] = Elem(D, j, i)
            /\ dense = D

\* C4 witness: the view of a 2 x 2 matrix whose off-diagonal elements differ
\* was materialised.
C4_Witness ==
    /\ last.op = "t_into_vec"
    /\ last.pre.m = 2
    /\ last.pre.n = 2
    /\ last.pre.data[2] # last.pre.data[3]
    /\ last.ret.val[2] = last.pre.data[3]

\* C5: swap_rows(a, b) with a, b < m exchanges rows a and b, leaves the other
\* rows and the dimensions alone, and undoes itself when applied again.
C5_SwapRows ==
    last.op = "swap_rows" =>
        LET D == last.pre
            a == Arg(1)
            b == Arg(2)
        IN  (a < D.m /\ b < D.m) =>
                /\ last.ret.ok
                /\ dense.m = D.m
                /\ dense.n = D.n
                /\ Len(dense.data) = Len(D.data)
                /\ RowOf(dense, a) = RowOf(D, b)
                /\ RowOf(dense, b) = RowOf(D, a)
                /\ \A r \in 0..(D.m - 1) : r \notin {a, b} => RowOf(dense, r) = RowOf(D, r)
                /\ swap_rows(dense, a, b) = Done(D)

\* C5 witness: rows 0 and 1 of a 2 x 2 matrix with different rows were swapped.
C5_Witness ==
    /\ last.op = "swap_rows"
    /\ last.ret.ok
    /\ Arg(1) = 0
    /\ Arg(2) = 1
    /\ last.pre.m = 2
    /\ last.pre.n = 2
    /\ RowOf(last.pre, 0) # RowOf(last.pre, 1)

\* C6: concatenate succeeds exactly when the row counts agree and then gives
\* the m x (n + other.n) matrix whose rows are the rows of self followed by
\* the rows of other; otherwise it gives Incompatibility.  concatenate_vec
\* does the same with the slice as a single column.
C6_Concatenate ==
    /\ last.op = "concatenate" =>
         LET A == last.pre
             B == Arg(1)
             r == last.ret
         IN  /\ r.ok <=> A.m = B.m
             /\ ~r.ok => r.err = "Incompatibility"
             /\ r.ok =>
                  /\ r.val.m = A.m
                  /\ r.val.n = A.n + B.n
                  /\ Len(r.val.data) = A.m * (A.n + B.n)
                  /\ \A i \in 0..(A.m - 1) :
                       /\ \A j \in 0..(A.n - 1) : Elem(r.val, i, j) = Elem(A, i, j)
                       /\ \A j \in 0..(B.n - 1) : Elem(r.val, i, A.n + j) = Elem(B, i, j)
    /\ last.op = "concatenate_vec" =>
         LET A == last.pre
             v == Arg(1)
             r == last.ret
         IN  /\ r.ok <=> Len(v) = A.m
             /\ ~r.ok => r.err = "Incompatibility"
             /\ r = concatenate(A, col_from_vec(v))
             /\ r.ok =>
                  /\ r.val.m = A.m
                  /\ r.val.n = A.n + 1
                  /\ Len(r.val.data) = A.m * (A.n + 1)
                  /\ \A i \in 0..(A.m - 1) :
                       /\ \A j \in 0..(A.n - 1) : Elem(r.val, i, j) = Elem(A, i, j)
                       /\ Elem(r.val, i, A.n) = v[i + 1]

\* C6 witness: a 2 x 1 matrix was joined with a different 2 x 1 matrix.
C6_Witness ==
    /\ last.op = "concatenate"
    /\ last.ret.ok
    /\ last.pre.m = 2
    /\ last.pre.n = 1
    /\ Arg(1).n = 1
    /\ Arg(1).data # last.pre.data
    /\ dense.n = 2

\* The sum over k of a[i, k] * b[k, j].
Dot(A, B, i, j) == SumTo([k \in 1..A.n |-> Elem(A, i, k - 1) * Elem(B, k - 1, j)], A.n)

\* C7: a * b succeeds exactly when a.n = b.m and then gives the a.m x b.n
\* matrix of the sums over t of a[i, t] * b[t, j]; otherwise it gives
\* Incompatibility and no matrix.
C7_DenseMul ==
    last.op = "dense_mul" =>
        LET A == last.pre
            B == Arg(1)
            r == last.ret
        IN  /\ r.ok <=> A.n = B.m
            /\ ~r.ok => r = Incompatibility /\ dense = A
            /\ r.ok =>
                 /\ r.val.m = A.m
                 /\ r.val.n = B.n
                 /\ Len(r.val.data) = A.m * B.n
                 /\ \A i \in 0..(A.m - 1), j \in 0..(B.n - 1) :
                        Elem(r.val, i, j) = Dot(A, B, i, j)

\* C7 witness: a product of two 2 x 2 matrices has an element that is a sum
\* of two non-zero products.
C7_Witness ==
    /\ last.op = "dense_mul"
    /\ last.ret.ok
    /\ last.pre.m = 2
    /\ last.pre.n = 2
    /\ Arg(1).n = 2
    /\ \E i \in 0..1, j \in 0..1 :
           /\ Elem(last.pre, i, 0) * Elem(Arg(1), 0, j) > 0
           /\ Elem(last.pre, i, 1) * Elem(Arg(1), 1, j) > 0
           /\ Elem(dense, i, j) = Dot(last.pre, Arg(1), i, j)

\* The element at logical position (i, j) of a symmetric matrix: the slot
\* hi*(hi+1)/2 + lo of the stored triangle.
SymElem(S, i, j) ==
    LET hi == IF i >= j THEN i ELSE j
        lo == IF i >= j THEN j ELSE i
    IN  S.data[(hi * (hi + 1)) \div 2 + lo + 1]

\* The n x n dense copy of a symmetric matrix.
Expand(S) == MkDense([p \in 1..(S.n * S.n) |-> SymElem(S, (p - 1) \div S.n, (p - 1) % S.n)],
                     S.n, S.n)

\* C8: a symmetric matrix reads the same at [i, j] and [j, i], and a value
\* written at [i, j] is the value read at [j, i].
C8_SymmetricInvariant ==
    /\ \A i \in 0..(sym.n - 1), j \in 0..(sym.n - 1) :
           /\ ~sym_oob(sym, i, j)
           /\ sym_index(sym, i, j) = sym_index(sym, j, i)
    /\ last.op = "sym_index_mut" /\ Arg(1) < last.pre.n /\ Arg(2) < last.pre.n =>
           /\ last.ret.ok
           /\ sym.n = last.pre.n
           /\ sym_index(sym, Arg(1), Arg(2)) = Arg(3)
           /\ sym_index(sym, Arg(2), Arg(1)) = Arg(3)
    /\ last.op = "sym_index" /\ Arg(1) < last.pre.n /\ Arg(2) < last.pre.n =>
           /\ last.ret.ok
           /\ last.ret.val = sym_index(sym, Arg(2), Arg(1))

\* C8 witness: a new value was written at [0, 2] of a symmetric matrix of
\* side 3 and is read at [2, 0].
C8_Witness ==
    /\ last.op = "sym_index_mut"
    /\ last.pre.n = 3
    /\ Arg(1) = 0
    /\ Arg(2) = 2
    /\ Arg(3) # last.pre.data[4]
    /\ sym_index(sym, 2, 0) = Arg(3)

\* C9: s * d for a symmetric s of side n succeeds exactly when n = d.m and then
\* gives the n x d.n matrix of the sums over t of s[i, t] * d[t, j], the product
\* of the dense copy of s with d; otherwise it gives Incompatibility and the
\* operands are as before.
C9_SymMulDense ==
    last.op = "sym_mul_dense" =>
        LET S == Arg(1)
            D == last.pre
            r == last.ret
        IN  /\ r.ok <=> S.n = D.m
            /\ ~r.ok => r = Incompatibility /\ dense = D
            /\ r = dense_mul(Expand(S), D)
            /\ r.ok =>
                 /\ r.val.m = S.n
                 /\ r.val.n = D.n
                 /\ Len(r.val.data) = S.n * D.n
                 /\ \A i \in 0..(S.n - 1), j \in 0..(D.n - 1) :
                        Elem(r.val, i, j) =
                            SumTo([k \in 1..S.n |-> SymElem(S, i, k - 1) * Elem(D, k - 1, j)],
                                  S.n)

\* C9 witness: a symmetric matrix of side 2 with a non-zero off-diagonal value
\* was multiplied with a 2 x 2 matrix, and an element of the product is a sum
\* of two non-zero products.
C9_Witness ==
    /\ last.op = "sym_mul_dense"
    /\ last.ret.ok
    /\ Arg(1).n = 2
    /\ Arg(1).data[2] > 0
    /\ last.pre.n = 2
    /\ \E i \in 0..1, j \in 0..1 :
           /\ SymElem(Arg(1), i, 0) * Elem(last.pre, 0, j) > 0
           /\ SymElem(Arg(1), i, 1) * Elem(last.pre, 1, j) > 0

\* The greatest common divisor of two naturals, 0 for (0, 0).
Divides(d, x) == x % d = 0
MathGcd(a, b) ==
    IF a = 0 /\ b = 0 THEN 0
    ELSE LET top == IF a >= b THEN a ELSE b
             common == {d \in 1..top : Divides(d, a) /\ Divides(d, b)}
         IN  CHOOSE d \in common : \A e \in common : e <= d

\* C10: gcd(a, b) on an unsigned type returns the greatest common divisor, with
\* gcd(a, 0) = a and gcd(0, b) = b, equals gcd(b, a), and no intermediate value
\* leaves the range of the type.
C10_Gcd ==
    /\ ~gcd_ovf
    /\ gcd_pc = "done" =>
         /\ gcd_ret = MathGcd(gcd_in[1], gcd_in[2])
         /\ gcd_in[2] = 0 => gcd_ret = gcd_in[1]
         /\ gcd_in[1] = 0 => gcd_ret = gcd_in[2]
         /\ gcd_ret = gcd(gcd_in[2], gcd_in[1])

\* C10 witness: gcd(12, 8) returned 4 after two doublings.
C10_Witness ==
    /\ gcd_pc = "done"
    /\ gcd_in = <<12, 8>>
    /\ gcd_ret = 4

\* C11: for all a, b of the unsigned type whose product a * b is within the
\* range of the type, lcm(a, b) returns a value, and that value times gcd(a, b)
\* is a * b.
C11_LcmIdentity ==
    last.op = "lcm" /\ ~Overflows(Arg(1) * Arg(2)) =>
        /\ last.ret.ok
        /\ last.ret.val * gcd_ret = Arg(1) * Arg(2)

\* C12: into_vec of a symmetric matrix of side n returns the n * n elements in
\* row-major reading order: the entry at index i * n + j is sym[[i, j]], in
\* keeping with size() = [n, n].
C12_SymIntoVec ==
    last.op = "sym_into_vec" =>
        LET S == last.pre
            r == last.ret.val
        IN  /\ last.ret.ok
            /\ Symmetric_size(S) = <<S.n, S.n>>
            /\ Len(r) = S.n * S.n
            /\ \A i \in 0..(S.n - 1), j \in 0..(S.n - 1) :
                   r[i * S.n + j + 1] = SymElem(S, i, j)

\* C13: after dense[[i, j]] = v with i < m and j < n, the read dense[[i, j]]
\* returns v, the slot written is the flat offset j + i * n, so that the row
\* read dense[i][j] returns v as well, and every other element and the
\* dimensions are as before.
C13_IndexRoundTrip ==
    last.op = "index_mut" /\ Arg(1) < last.pre.m /\ Arg(2) < last.pre.n =>
        LET D == last.pre
            i == Arg(1)
            j == Arg(2)
            v == Arg(3)
        IN  /\ last.ret = Ok(Unit)
            /\ ~oob(dense, offset(dense, i, j))
            /\ index(dense, i, j) = v
            /\ dense.data[j + i * D.n + 1] = v
            /\ ~row_oob(dense, i)
            /\ index_row(dense, i)[j + 1] = v
            /\ dense.m = D.m
            /\ dense.n = D.n
            /\ Len(dense.data) = Len(D.data)
            /\ \A p \in 1..Len(D.data) :
                   p # j + i * D.n + 1 => dense.data[p] = D.data[p]

\* C13 witness: a new value was written at [1, 1] of a 2 x 2 matrix whose four
\* elements were equal before, and only the last stored value differs now.
C13_Witness ==
    /\ last.op = "index_mut"
    /\ last.pre.m = 2
    /\ last.pre.n = 2
    /\ Arg(1) = 1
    /\ Arg(2) = 1
    /\ last.pre.data = <<0, 0, 0, 0>>
    /\ dense.data = <<0, 0, 0, 2>>

\* C14: on a matrix with as many stored values as m * n, every element access
\* dense[[i, j]], read or write, with i >= m or j >= n fails with an
\* out-of-bounds panic: it returns no stored element and overwrites none.
C14_OutOfRangePanics ==
    /\ last.op \in {"index", "index_mut"}
    /\ Len(last.pre.data) = last.pre.m * last.pre.n
    /\ (Arg(1) >= last.pre.m \/ Arg(2) >= last.pre.n)
    => /\ last.ret = PanicRes
       /\ dense = last.pre

\* C15: add_rows(base, source, factor) with base < m and source < m, the two
\* being equal included, leaves in every column j of row base the value
\* old[base, j] + old[source, j] * factor, old being the matrix before the
\* call, and leaves every other row and the dimensions as they were.
C15_AddRows ==
    last.op = "add_rows" /\ Arg(1) < last.pre.m /\ Arg(2) < last.pre.m =>
        LET old == last.pre
            base == Arg(1)
            source == Arg(2)
            factor == Arg(3)
        IN  /\ last.ret = Ok(Unit)
            /\ dense.m = old.m
            /\ dense.n = old.n
            /\ Len(dense.data) = Len(old.data)
            /\ \A j \in 0..(old.n - 1) :
                   Elem(dense, base, j) = Elem(old, base, j) + Elem(old, source, j) * factor
            /\ \A r \in 0..(old.m - 1) : r # base => RowOf(dense, r) = RowOf(old, r)

\* C15 witness: row 1 of a two-row matrix was added to itself, and an element
\* of that row went from 1 to 2.
C15_Witness ==
    /\ last.op = "add_rows"
    /\ last.pre.m = 2
    /\ last.pre.n = 2
    /\ Arg(1) = 1
    /\ Arg(2) = 1
    /\ Arg(3) = 1
    /\ Elem(last.pre, 1, 0) = 1
    /\ Elem(dense, 1, 0) = 2
    /\ RowOf(dense, 0) = RowOf(last.pre, 0)

\* C16: for every pair of arguments of the unsigned type, every recursive call
\* of gcd is made with arguments whose sum is strictly smaller than the sum of
\* its caller's arguments, and the outermost call eventually returns.
C16_GcdTerminates ==
    /\ [][gcd_pc = "call" /\ gcd_pc' = "call" => gcd_a' + gcd_b' < gcd_a + gcd_b]_vars
    /\ <>(gcd_pc = "done")

\* C16 witness: gcd(7, 12) returned after recursive calls, the innermost with
\* a smaller sum of arguments than 19.
C16_Witness ==
    /\ gcd_pc = "done"
    /\ gcd_in = <<7, 12>>
    /\ gcd_ret = 1
    /\ gcd_a + gcd_b < 19

\* C17: for a symmetric matrix of side n holding n * (n + 1) / 2 values and all
\* i, j < n, the offset used for [i, j] is hi * (hi + 1) / 2 + lo (hi the
\* larger, lo the smaller index), lies within the stored values, and is shared
\* by two index pairs exactly when they are the same unordered pair; an
\* assignment at [i, j] therefore succeeds and changes the positions [i, j] and
\* [j, i] only.
C17_SymOffset ==
    LET side == 0..(sym.n - 1)
        hi(i, j) == IF i >= j THEN i ELSE j
        lo(i, j) == IF i >= j THEN j ELSE i
    IN  /\ Len(sym.data) = (sym.n * (sym.n + 1)) \div 2
        /\ \A i \in side, j \in side :
               /\ sym_offset(i, j) = (hi(i, j) * (hi(i, j) + 1)) \div 2 + lo(i, j)
               /\ sym_offset(i, j) \in 0..(Len(sym.data) - 1)
               /\ ~sym_oob(sym, i, j)
        /\ \A i \in side, j \in side, k \in side, l \in side :
               sym_offset(i, j) = sym_offset(k, l) <=> {i, j} = {k, l}
        /\ last.op = "sym_index_mut" /\ Arg(1) < last.pre.n /\ Arg(2) < last.pre.n =>
               /\ last.ret = Ok(Unit)
               /\ sym.n = last.pre.n
               /\ SymElem(sym, Arg(1), Arg(2)) = Arg(3)
               /\ \A k \in side, l \in side :
                      {k, l} # {Arg(1), Arg(2)} => SymElem(sym, k, l) = SymElem(last.pre, k, l)

\* C17 witness: a new value was written at [2, 1] of a symmetric matrix of side
\* 3 whose six stored values were equal, and only the fifth differs now.
C17_Witness ==
    /\ last.op = "sym_index_mut"
    /\ last.pre = MkSym(<<1, 1, 1, 1, 1, 1>>, 3)
    /\ Arg(1) = 2
    /\ Arg(2) = 1
    /\ sym.data = <<1, 1, 1, 1, 2, 1>>

\* C18: for every value x of an integer type, signed or unsigned, negative
\* values included, exactly one of is_even(x) and is_odd(x) is true.
C18_ParityPartition ==
    /\ last.op = "is_even" => (last.ret.val <=> ~is_odd(Arg(1)))
    /\ last.op = "is_odd" => (last.ret.val <=> ~is_even(Arg(1)))

\* The items of a literal in reading order.
RECURSIVE Flatten(_, _)
Flatten(rows, k) == IF k = 0 THEN <<>> ELSE Flatten(rows, k - 1) \o rows[k]

\* C19: a matrix written as a literal of one or more rows, each of one or more
\* items, whatever the item counts of the rows, has m equal to the number of
\* rows, holds all items in reading order, and has as many stored values as
\* m * n; the fill form gives an m x n matrix of m * n values all equal to v.
C19_MatKeepsInvariant ==
    /\ last.op = "mat" =>
           /\ dense.m = Len(Arg(1))
           /\ dense.data = Flatten(Arg(1), Len(Arg(1)))
           /\ Len(dense.data) = dense.m * dense.n
    /\ last.op = "mat_fill" =>
           /\ dense.m = Arg(2)
           /\ dense.n = Arg(3)
           /\ Len(dense.data) = Arg(2) * Arg(3)
           /\ \A p \in 1..Len(dense.data) : dense.data[p] = Arg(1)

====
